---------------------------- MODULE Spec2Model ----------------------------
(***************************************************************************)
(* Model of scripts/generate_synthetic_data.py: the synthetic data         *)
(* generator (org builder, region builder, edge builder, writer).          *)
(*                                                                         *)
(* Python str values that the code derives or concatenates (ids, NGO       *)
(* names, region names) are sequences of characters; a character is a      *)
(* one-letter string, and the three non-ASCII letters that occur are       *)
(* written by code point: "U+00E9" (e acute), "U+00E8" (e grave),          *)
(* "U+00E7" (c cedilla).  Enumeration-like strings (need levels, aid       *)
(* types, file names) and country display names are plain strings.         *)
(***************************************************************************)
EXTENDS Integers, Sequences, FiniteSets

(***************************************************************************)
(* Bounds of the model.                                                    *)
(***************************************************************************)
\* TOTAL_PROJECTS is 180 in the source (line 8); the edge builder is
\* explored for every loop length 0..MaxProjects.
MaxProjects == 3
\* Loop lengths explored when the edge builder runs inside main, on the
\* full seeded org and region lists.
MainProjects == 1
\* random.choice on a list longer than MaxPick draws among its first
\* MaxPick elements.
MaxPick == 2
\* Longest country list handed to generate_regions on its own.
MaxCountries == 2

(***************************************************************************)
(* Configuration and constants (lines 6-12).                               *)
(***************************************************************************)
NUM_ORGS == 15
NEED_LEVELS == <<"low", "medium", "high">>
AID_TYPES == <<"food", "medical", "infrastructure">>
OUTPUT_DIR == "src/data"

(***************************************************************************)
(* Seed data (lines 15-64).  REGIONS_DB is a dict: a sequence of           *)
(* <<key, rows>> items in insertion order, each row a                      *)
(* <<name, population, need_level>> tuple.                                 *)
(***************************************************************************)
COUNTRIES ==
  << [id |-> <<"s", "y", "r", "i", "a">>, name |-> "Syria", population |-> 21500000, need_level |-> "high"],
     [id |-> <<"y", "e", "m", "e", "n">>, name |-> "Yemen", population |-> 33000000, need_level |-> "high"],
     [id |-> <<"s", "u", "d", "a", "n">>, name |-> "Sudan", population |-> 45000000, need_level |-> "high"],
     [id |-> <<"a", "f", "g", "h", "a", "n", "i", "s", "t", "a", "n">>, name |-> "Afghanistan", population |-> 40000000, need_level |-> "high"],
     [id |-> <<"s", "o", "m", "a", "l", "i", "a">>, name |-> "Somalia", population |-> 17000000, need_level |-> "high"],
     [id |-> <<"p", "a", "l", "e", "s", "t", "i", "n", "e">>, name |-> "Palestine", population |-> 5000000, need_level |-> "high"],
     [id |-> <<"m", "y", "a", "n", "m", "a", "r">>, name |-> "Myanmar", population |-> 54000000, need_level |-> "medium"],
     [id |-> <<"e", "t", "h", "i", "o", "p", "i", "a">>, name |-> "Ethiopia", population |-> 120000000, need_level |-> "medium"] >>

REGIONS_DB ==
  << << <<"s", "y", "r", "i", "a">>,
        << << <<"a", "l", "e", "p", "p", "o">>, 4500000, "high" >>,
           << <<"i", "d", "l", "i", "b">>, 3000000, "high" >>,
           << <<"d", "a", "m", "a", "s", "c", "u", "s">>, 2500000, "medium" >>,
           << <<"h", "o", "m", "s">>, 1500000, "medium" >>,
           << <<"r", "a", "q", "q", "a">>, 900000, "high" >> >> >>,
     << <<"y", "e", "m", "e", "n">>,
        << << <<"s", "a", "n", "a", "a">>, 4000000, "high" >>,
           << <<"a", "d", "e", "n">>, 1200000, "medium" >>,
           << <<"t", "a", "i", "z">>, 2800000, "high" >>,
           << <<"h", "o", "d", "e", "i", "d", "a", "h">>, 2000000, "high" >>,
           << <<"m", "a", "r", "i", "b">>, 1000000, "high" >> >> >>,
     << <<"s", "u", "d", "a", "n">>,
        << << <<"k", "h", "a", "r", "t", "o", "u", "m">>, 6000000, "high" >>,
           << <<"d", "a", "r", "f", "u", "r">>, 9000000, "high" >>,
           << <<"k", "o", "r", "d", "o", "f", "a", "n">>, 4000000, "high" >>,
           << <<"b", "l", "u", "e", "-", "n", "i", "l", "e">>, 1200000, "medium" >> >> >>,
     << <<"a", "f", "g", "h", "a", "n", "i", "s", "t", "a", "n">>,
        << << <<"k", "a", "b", "u", "l">>, 4500000, "high" >>,
           << <<"h", "e", "r", "a", "t">>, 2000000, "medium" >>,
           << <<"k", "a", "n", "d", "a", "h", "a", "r">>, 1500000, "high" >>,
           << <<"m", "a", "z", "a", "r">>, 1000000, "medium" >> >> >>,
     << <<"s", "o", "m", "a", "l", "i", "a">>,
        << << <<"m", "o", "g", "a", "d", "i", "s", "h", "u">>, 2500000, "high" >>,
           << <<"b", "a", "i", "d", "o", "a">>, 800000, "high" >>,
           << <<"h", "a", "r", "g", "e", "i", "s", "a">>, 1200000, "low" >>,
           << <<"k", "i", "s", "m", "a", "y", "o">>, 500000, "high" >> >> >>,
     << <<"p", "a", "l", "e", "s", "t", "i", "n", "e">>,
        << << <<"g", "a", "z", "a">>, 2300000, "high" >>,
           << <<"w", "e", "s", "t", "-", "b", "a", "n", "k", "-", "n", "o", "r", "t", "h">>, 1500000, "medium" >>,
           << <<"w", "e", "s", "t", "-", "b", "a", "n", "k", "-", "s", "o", "u", "t", "h">>, 1200000, "medium" >> >> >>,
     << <<"m", "y", "a", "n", "m", "a", "r">>,
        << << <<"r", "a", "k", "h", "i", "n", "e">>, 3000000, "high" >>,
           << <<"y", "a", "n", "g", "o", "n">>, 7000000, "low" >>,
           << <<"m", "a", "n", "d", "a", "l", "a", "y">>, 1500000, "low" >> >> >>,
     << <<"e", "t", "h", "i", "o", "p", "i", "a">>,
        << << <<"t", "i", "g", "r", "a", "y">>, 6000000, "high" >>,
           << <<"a", "m", "h", "a", "r", "a">>, 20000000, "medium" >>,
           << <<"o", "r", "o", "m", "i", "a">>, 35000000, "medium" >>,
           << <<"s", "o", "m", "a", "l", "i", "-", "r", "e", "g", "i", "o", "n">>, 5000000, "high" >> >> >> >>

NGO_NAMES ==
  << <<"W", "o", "r", "l", "d", " ", "F", "o", "o", "d", " ", "P", "r", "o", "g", "r", "a", "m", "m", "e">>,
     <<"M", "U+00E9", "d", "e", "c", "i", "n", "s", " ", "S", "a", "n", "s", " ", "F", "r", "o", "n", "t", "i", "U+00E8", "r", "e", "s">>,
     <<"I", "C", "R", "C">>,
     <<"U", "N", " ", "R", "e", "f", "u", "g", "e", "e", " ", "A", "g", "e", "n", "c", "y">>,
     <<"U", "N", "I", "C", "E", "F">>,
     <<"O", "x", "f", "a", "m">>,
     <<"I", "n", "t", "e", "r", "n", "a", "t", "i", "o", "n", "a", "l", " ", "R", "e", "s", "c", "u", "e", " ", "C", "o", "m", "m", "i", "t", "t", "e", "e">>,
     <<"W", "o", "r", "l", "d", " ", "H", "e", "a", "l", "t", "h", " ", "O", "r", "g", "a", "n", "i", "z", "a", "t", "i", "o", "n">>,
     <<"S", "a", "v", "e", " ", "t", "h", "e", " ", "C", "h", "i", "l", "d", "r", "e", "n">>,
     <<"I", "s", "l", "a", "m", "i", "c", " ", "R", "e", "l", "i", "e", "f">>,
     <<"C", "A", "R", "E", " ", "I", "n", "t", "e", "r", "n", "a", "t", "i", "o", "n", "a", "l">>,
     <<"M", "e", "r", "c", "y", " ", "C", "o", "r", "p", "s">>,
     <<"N", "o", "r", "w", "e", "g", "i", "a", "n", " ", "R", "e", "f", "u", "g", "e", "e", " ", "C", "o", "u", "n", "c", "i", "l">>,
     <<"A", "c", "t", "i", "o", "n", " ", "A", "g", "a", "i", "n", "s", "t", " ", "H", "u", "n", "g", "e", "r">>,
     <<"D", "i", "r", "e", "c", "t", " ", "R", "e", "l", "i", "e", "f">> >>

(***************************************************************************)
(* Python str and dict operations used by the script.                      *)
(***************************************************************************)
UPPERCASE ==
  << "A", "B", "C", "D", "E", "F", "G", "H", "I", "J", "K", "L", "M",
     "N", "O", "P", "Q", "R", "S", "T", "U", "V", "W", "X", "Y", "Z",
     "U+00C9", "U+00C8", "U+00C7" >>

LOWERCASE ==
  << "a", "b", "c", "d", "e", "f", "g", "h", "i", "j", "k", "l", "m",
     "n", "o", "p", "q", "r", "s", "t", "u", "v", "w", "x", "y", "z",
     "U+00E9", "U+00E8", "U+00E7" >>

IsCased(c) == \E k \in 1..Len(UPPERCASE) : c = UPPERCASE[k] \/ c = LOWERCASE[k]

LowerChar(c) ==
  IF \E k \in 1..Len(UPPERCASE) : UPPERCASE[k] = c
  THEN LOWERCASE[CHOOSE k \in 1..Len(UPPERCASE) : UPPERCASE[k] = c]
  ELSE c

UpperChar(c) ==
  IF \E k \in 1..Len(LOWERCASE) : LOWERCASE[k] = c
  THEN UPPERCASE[CHOOSE k \in 1..Len(LOWERCASE) : LOWERCASE[k] = c]
  ELSE c

\* str.lower()
Lower(s) == [k \in 1..Len(s) |-> LowerChar(s[k])]

\* str.title(): a cased character is uppercased when it starts the string
\* or follows an uncased character, and lowercased otherwise.
Title(s) ==
  [k \in 1..Len(s) |->
     IF k = 1 \/ ~IsCased(s[k - 1]) THEN UpperChar(s[k]) ELSE LowerChar(s[k])]

\* str.replace(old, new) for the one-character old and new the script uses.
Replace(s, old, new) == [k \in 1..Len(s) |-> IF s[k] = old THEN new ELSE s[k]]

\* key in d
DictHas(d, key) == \E k \in 1..Len(d) : d[k][1] = key

\* d[key]: ok is FALSE where Python raises KeyError.
DictGet(d, key) ==
  IF DictHas(d, key)
  THEN [ok |-> TRUE, val |-> d[CHOOSE k \in 1..Len(d) : d[k][1] = key][2]]
  ELSE [ok |-> FALSE, val |-> << >>]

(***************************************************************************)
(* State.                                                                  *)
(***************************************************************************)
VARIABLES
  pc,                 \* position in main / in the function under analysis
  countries,          \* the country list handed to generate_regions
  total_projects,     \* TOTAL_PROJECTS of this run
  orgs, i,            \* generate_orgs: result list, loop index
  regions, ci,        \* generate_regions: result list, countries consumed
  edges, it,          \* generate_edges: result list, iterations completed
  high_need_regions,  \* generate_edges: the high-need subset (line 92)
  draw,               \* generate_edges: the locals of the last iteration,
                      \* << >> before the first one
  drawn_sum,          \* history: sum of every randint result so far
  dir_exists, files,  \* the file system: OUTPUT_DIR and the four files
  wi                  \* main: number of files written completely

vars ==
  << pc, countries, total_projects, orgs, i, regions, ci, edges, it,
     high_need_regions, draw, drawn_sum, dir_exists, files, wi >>

genVars == << orgs, i, regions, ci, edges, it, high_need_regions, draw, drawn_sum >>
fsVars == << dir_exists, files, wi >>

(***************************************************************************)
(* generate_orgs (lines 66-71).                                            *)
(***************************************************************************)
\* Mutant of OrgId: the id is cut at the first space instead of hyphenated.
OrgIdFirstWord(name) ==
  LET s == Lower(name)
      n == IF \E k \in 1..Len(s) : s[k] = " "
           THEN (CHOOSE k \in 1..Len(s) :
                   s[k] = " " /\ \A j \in 1..(k - 1) : s[j] # " ") - 1
           ELSE Len(s)
  IN  Replace(Replace(SubSeq(s, 1, n), "U+00E9", "e"), "U+00E7", "c")

\* line 69: the id derived from an NGO name.
OrgId(name) ==
  Replace(Replace(Replace(Lower(name), " ", "-"), "U+00E9", "e"), "U+00E7", "c")

\* line 70: the record appended for index k (1-based here).
OrgRecord(k) == [id |-> OrgId(NGO_NAMES[k]), name |-> NGO_NAMES[k]]

OrgsEnter ==
  /\ pc = "gen_orgs"
  /\ orgs' = << >>
  /\ i' = 0
  /\ pc' = "orgs_loop"
  /\ UNCHANGED << countries, total_projects, regions, ci, edges, it,
                  high_need_regions, draw, drawn_sum, dir_exists, files, wi >>

OrgsIter ==
  /\ pc = "orgs_loop"
  /\ i < Len(NGO_NAMES)
  /\ orgs' = Append(orgs, OrgRecord(i + 1))
  /\ i' = i + 1
  /\ UNCHANGED << pc, countries, total_projects, regions, ci, edges, it,
                  high_need_regions, draw, drawn_sum, dir_exists, files, wi >>

OrgsReturn ==
  /\ pc = "orgs_loop"
  /\ i = Len(NGO_NAMES)
  /\ pc' = "gen_regions"
  /\ UNCHANGED << countries, total_projects, orgs, i, regions, ci, edges, it,
                  high_need_regions, draw, drawn_sum, dir_exists, files, wi >>

(***************************************************************************)
(* generate_regions (lines 73-87).                                         *)
(***************************************************************************)
\* Mutant of InRegionsDb: the lookup is not guarded.
InRegionsDbAlways(cid) == TRUE

\* line 77: the membership test guarding the lookup.
InRegionsDb(cid) == DictHas(REGIONS_DB, cid)

\* lines 79-86: the record built from one row of a country's table.
RegionRecord(cid, row) ==
  [ id |-> cid \o << "-" >> \o row[1],
    country_id |-> cid,
    name |-> Replace(Title(row[1]), "-", " "),
    population |-> row[2],
    need_level |-> row[3] ]

\* Mutant of RegionRows: the inner loop stops one row early.
RegionRowsShort(cid, rows) ==
  [k \in 1..(Len(rows) - 1) |-> RegionRecord(cid, rows[k])]

\* lines 78-86: the inner loop over a country's rows.
RegionRows(cid, rows) == [k \in 1..Len(rows) |-> RegionRecord(cid, rows[k])]

RegionsEnter ==
  /\ pc = "gen_regions"
  /\ regions' = << >>
  /\ ci' = 0
  /\ pc' = "regions_loop"
  /\ UNCHANGED << countries, total_projects, orgs, i, edges, it,
                  high_need_regions, draw, drawn_sum, dir_exists, files, wi >>

\* One iteration of the outer loop, the inner loop included.
RegionsIter ==
  /\ pc = "regions_loop"
  /\ ci < Len(countries)
  /\ LET cid == countries[ci + 1].id
         got == DictGet(REGIONS_DB, cid)
     IN  IF ~InRegionsDb(cid)
         THEN /\ ci' = ci + 1
              /\ UNCHANGED << pc, regions >>
         ELSE IF got.ok
         THEN /\ regions' = regions \o RegionRows(cid, got.val)
              /\ ci' = ci + 1
              /\ UNCHANGED pc
         ELSE /\ pc' = "raised"
              /\ UNCHANGED << regions, ci >>
  /\ UNCHANGED << countries, total_projects, orgs, i, edges, it,
                  high_need_regions, draw, drawn_sum, dir_exists, files, wi >>

RegionsReturn ==
  /\ pc = "regions_loop"
  /\ ci = Len(countries)
  /\ pc' = "gen_edges"
  /\ UNCHANGED << countries, total_projects, orgs, i, regions, ci, edges, it,
                  high_need_regions, draw, drawn_sum, dir_exists, files, wi >>

(***************************************************************************)
(* generate_edges (lines 89-120).                                          *)
(***************************************************************************)
\* line 92: the high-need subset, in list order.
IsHighNeed(r) == r.need_level = "high"
HighNeed(rs) == SelectSeq(rs, IsHighNeed)

\* random.choice(list): any element (among the first MaxPick).
Choice(list) ==
  { list[k] : k \in 1..(IF Len(list) < MaxPick THEN Len(list) ELSE MaxPick) }

\* line 106: random.randint(COUNT_MIN, COUNT_MAX), sampled at its two ends.
COUNT_MIN == 1
COUNT_MAX == 15
\* Mutant of CountDraws: randint(0, 15).
CountDrawsFromZero == { COUNT_MIN - 1, COUNT_MAX }

CountDraws == { COUNT_MIN, COUNT_MAX }

\* Mutant of Matches: org_id and region_id are compared crosswise.
MatchesCrossed(e, org_id, region_id, aid_type) ==
  e.org_id = region_id /\ e.region_id = org_id /\ e.aid_type = aid_type

\* line 109: position of the first edge matching the triple, 0 for None.
Matches(e, org_id, region_id, aid_type) ==
  e.org_id = org_id /\ e.region_id = region_id /\ e.aid_type = aid_type

Existing(es, org_id, region_id, aid_type) ==
  IF \E k \in 1..Len(es) : Matches(es[k], org_id, region_id, aid_type)
  THEN CHOOSE k \in 1..Len(es) :
         /\ Matches(es[k], org_id, region_id, aid_type)
         /\ \A j \in 1..(k - 1) : ~Matches(es[j], org_id, region_id, aid_type)
  ELSE 0

\* Mutant of AddProject: the count is assigned (=) instead of added (+=).
AddProjectAssign(es, org_id, region_id, aid_type, count) ==
  LET k == Existing(es, org_id, region_id, aid_type)
  IN  IF k # 0
      THEN [es EXCEPT ![k].project_count = count]
      ELSE Append(es, [ org_id |-> org_id,
                        region_id |-> region_id,
                        aid_type |-> aid_type,
                        project_count |-> count ])

\* lines 111-119: accumulate into the existing edge, or append a new one.
AddProject(es, org_id, region_id, aid_type, count) ==
  LET k == Existing(es, org_id, region_id, aid_type)
  IN  IF k # 0
      THEN [es EXCEPT ![k].project_count = @ + count]
      ELSE Append(es, [ org_id |-> org_id,
                        region_id |-> region_id,
                        aid_type |-> aid_type,
                        project_count |-> count ])

EdgesEnter ==
  /\ pc = "gen_edges"
  /\ edges' = << >>
  /\ high_need_regions' = HighNeed(regions)
  /\ it' = 0
  /\ draw' = << >>
  /\ drawn_sum' = 0
  /\ pc' = "edges_loop"
  /\ UNCHANGED << countries, total_projects, orgs, i, regions, ci,
                  dir_exists, files, wi >>

\* One iteration of the loop (lines 96-119).  random.choice raises
\* IndexError on an empty list; biased is the outcome of random() < 0.7.
EdgesIter ==
  /\ pc = "edges_loop"
  /\ it < total_projects
  /\ \E biased \in BOOLEAN :
       LET pool == IF biased THEN high_need_regions ELSE regions
       IN  IF orgs = << >> \/ pool = << >>
           THEN /\ pc' = "raised"
                /\ UNCHANGED << edges, it, draw, drawn_sum >>
           ELSE \E org \in Choice(orgs), target_region \in Choice(pool),
                   k \in 1..Len(AID_TYPES), count \in CountDraws :
                  /\ draw' = << [ org |-> org,
                                  target_region |-> target_region,
                                  aid_type |-> AID_TYPES[k],
                                  count |-> count ] >>
                  /\ edges' = AddProject(edges, org.id, target_region.id,
                                         AID_TYPES[k], count)
                  /\ drawn_sum' = drawn_sum + count
                  /\ it' = it + 1
                  /\ UNCHANGED pc
  /\ UNCHANGED << countries, total_projects, orgs, i, regions, ci,
                  high_need_regions, dir_exists, files, wi >>

EdgesReturn ==
  /\ pc = "edges_loop"
  /\ it = total_projects
  /\ pc' = "makedirs"
  /\ UNCHANGED << countries, total_projects, orgs, i, regions, ci, edges, it,
                  high_need_regions, draw, drawn_sum, dir_exists, files, wi >>

(***************************************************************************)
(* main: the writer (lines 130-149).                                       *)
(***************************************************************************)
\* Mutant of FILE_ORDER: orgs.json is written before regions.json.
FILE_ORDER_SWAPPED == << "countries.json", "orgs.json", "regions.json", "aid_edges.json" >>

\* lines 133-143: the four files, in the order of the four with-blocks.
FILE_ORDER == << "countries.json", "regions.json", "orgs.json", "aid_edges.json" >>

FileNames == { FILE_ORDER[k] : k \in 1..Len(FILE_ORDER) }

\* The collection each with-block dumps.
Collection(f) ==
  CASE f = "countries.json" -> countries
    [] f = "regions.json"   -> regions
    [] f = "orgs.json"      -> orgs
    [] f = "aid_edges.json" -> edges

\* A file's content: what it held before the run ("prior": anything, also
\* no file), a complete JSON array of the objects in data ("json"), or a
\* file opened for writing whose dump did not complete ("truncated").
PriorFile == [status |-> "prior", data |-> << >>]
JsonFile(objects) == [status |-> "json", data |-> objects]
TruncatedFile == [status |-> "truncated", data |-> << >>]

\* line 131: os.makedirs(OUTPUT_DIR, exist_ok=True); it can fail only when
\* the directory has to be created.
Makedirs ==
  /\ pc = "makedirs"
  /\ \E ok \in (IF dir_exists THEN {TRUE} ELSE BOOLEAN) :
       IF ok
       THEN /\ dir_exists' = TRUE
            /\ pc' = "write"
            /\ wi' = 0
       ELSE /\ pc' = "failed"
            /\ UNCHANGED << dir_exists, wi >>
  /\ UNCHANGED << countries, total_projects, genVars, files >>

\* One with-block: open(path, "w") truncates the file, json.dump fills it.
\* Either call can fail; the exception is not caught.
WriteFile ==
  /\ pc = "write"
  /\ wi < Len(FILE_ORDER)
  /\ LET f == FILE_ORDER[wi + 1]
     IN  \E outcome \in { "written", "open_fails", "dump_fails" } :
           IF outcome = "written"
           THEN /\ files' = [files EXCEPT ![f] = JsonFile(Collection(f))]
                /\ wi' = wi + 1
                /\ UNCHANGED pc
           ELSE /\ files' = IF outcome = "dump_fails"
                            THEN [files EXCEPT ![f] = TruncatedFile]
                            ELSE files
                /\ pc' = "failed"
                /\ UNCHANGED wi
  /\ UNCHANGED << countries, total_projects, genVars, dir_exists >>

\* lines 145-149: the summary is printed and main returns.
Finish ==
  /\ pc = "write"
  /\ wi = Len(FILE_ORDER)
  /\ pc' = "done"
  /\ UNCHANGED << countries, total_projects, genVars, fsVars >>

(***************************************************************************)
(* Specifications.                                                         *)
(***************************************************************************)
Idle ==
  /\ orgs = << >> /\ i = 0
  /\ regions = << >> /\ ci = 0
  /\ edges = << >> /\ it = 0
  /\ high_need_regions = << >>
  /\ draw = << >>
  /\ drawn_sum = 0
  /\ files = [f \in FileNames |-> PriorFile]
  /\ wi = 0

\* main() on the seeded tables.
Init ==
  /\ pc = "gen_orgs"
  /\ countries = COUNTRIES
  /\ total_projects \in 0..MainProjects
  /\ dir_exists \in BOOLEAN
  /\ Idle

Next ==
  \/ OrgsEnter \/ OrgsIter \/ OrgsReturn
  \/ RegionsEnter \/ RegionsIter \/ RegionsReturn
  \/ EdgesEnter \/ EdgesIter \/ EdgesReturn
  \/ Makedirs \/ WriteFile \/ Finish

Spec == Init /\ [][Next]_vars

\* generate_regions(countries) on every country list of up to MaxCountries
\* entries: the seeded countries and one country REGIONS_DB does not hold.
UnknownCountry ==
  [ id |-> << "a", "t", "l", "a", "n", "t", "i", "s" >>, name |-> "Atlantis",
    population |-> 1000000, need_level |-> "low" ]

CountryPool == { COUNTRIES[k] : k \in 1..Len(COUNTRIES) } \cup { UnknownCountry }

CountryLists == UNION { [1..n -> CountryPool] : n \in 0..MaxCountries }

InitRegions ==
  /\ pc = "gen_regions"
  /\ countries \in CountryLists
  /\ total_projects = 0
  /\ dir_exists = FALSE
  /\ Idle

NextRegions == RegionsEnter \/ RegionsIter \/ RegionsReturn

SpecRegions == InitRegions /\ [][NextRegions]_vars

\* generate_edges(orgs, regions) on short org and region lists, empty
\* lists and lists without a high-need region included.
AllOrgs == [k \in 1..Len(NGO_NAMES) |-> OrgRecord(k)]

OrgInputs == { SubSeq(AllOrgs, 1, n) : n \in 0..2 }

SampleRegions ==
  LET cid == COUNTRIES[6].id
  IN  RegionRows(cid, DictGet(REGIONS_DB, cid).val)

\* Every slice of at most two consecutive sample regions (b < a: the empty list).
RegionInputs ==
  UNION { { SubSeq(SampleRegions, a, b) :
              b \in { a - 1, a, a + 1 } \cap (0..Len(SampleRegions)) } :
          a \in 1..Len(SampleRegions) }

InitEdges ==
  /\ pc = "gen_edges"
  /\ countries = << >>
  /\ total_projects \in 0..MaxProjects
  /\ dir_exists = FALSE
  /\ orgs \in OrgInputs /\ i = 0
  /\ regions \in RegionInputs /\ ci = 0
  /\ edges = << >> /\ it = 0
  /\ high_need_regions = << >>
  /\ draw = << >>
  /\ drawn_sum = 0
  /\ files = [f \in FileNames |-> PriorFile]
  /\ wi = 0

NextEdges == EdgesEnter \/ EdgesIter \/ EdgesReturn

SpecEdges == InitEdges /\ [][NextEdges]_vars

(***************************************************************************)
(* Properties of generate_orgs, checked on main (Spec).                    *)
(***************************************************************************)
OrgsBuilt == pc \notin { "gen_orgs", "orgs_loop" }

WhitespaceChars == { " ", "\t", "\n", "\r" }
AccentedChars == { "U+00E9", "U+00E8", "U+00E7", "U+00C9", "U+00C8", "U+00C7" }

\* C2: every org id generate_orgs derives from the 15 seeded NGO names
\* holds no whitespace character and no accented character.
C2_IdsPlain ==
  \A k \in 1..Len(orgs) : \A j \in 1..Len(orgs[k].id) :
    orgs[k].id[j] \notin WhitespaceChars \cup AccentedChars

\* C6: generate_orgs returns exactly 15 records, the k-th one keeping the
\* k-th name of NGO_NAMES, and the 15 derived ids are pairwise distinct.
C6_OrgsComplete ==
  /\ \A k \in 1..Len(orgs) : orgs[k].name = NGO_NAMES[k]
  /\ OrgsBuilt =>
       /\ Len(orgs) = NUM_ORGS
       /\ Len(orgs) = Len(NGO_NAMES)
       /\ \A a, b \in 1..Len(orgs) : a # b => orgs[a].id # orgs[b].id

C6_Witness == pc = "gen_regions" /\ Len(orgs) = NUM_ORGS

(***************************************************************************)
(* Properties of generate_regions.                                         *)
(***************************************************************************)
RegionsBuilt == pc \notin { "gen_orgs", "orgs_loop", "gen_regions", "regions_loop" }

\* Rows REGIONS_DB holds for a country id, 0 for an id it does not hold.
RowCount(cid) == IF DictHas(REGIONS_DB, cid) THEN Len(DictGet(REGIONS_DB, cid).val) ELSE 0

RECURSIVE RowCountSum(_)
RowCountSum(cs) == IF cs = << >> THEN 0 ELSE RowCount(Head(cs).id) + RowCountSum(Tail(cs))

RegionsJson == files["regions.json"]

\* C3 as stated: the 8 seeded countries yield exactly 33 regions, and
\* regions.json holds exactly 33 objects.
C3_ThirtyThree ==
  /\ RegionsBuilt => Len(regions) = 33
  /\ RegionsJson.status = "json" => Len(RegionsJson.data) = 33

\* C3 as amended: the 8 seeded countries yield exactly 32 regions, the sum
\* of the REGIONS_DB row counts, and regions.json holds exactly 32 objects.
C3_ThirtyTwo ==
  /\ RowCountSum(COUNTRIES) = 32
  /\ RegionsBuilt => Len(regions) = 32
  /\ RegionsJson.status = "json" => Len(RegionsJson.data) = 32

C3_Witness == RegionsJson.status = "json" /\ countries = COUNTRIES /\ pc = "done"

\* C5: for every country list, generate_regions raises no error, every
\* region's country_id is the id of a listed country, a country absent
\* from REGIONS_DB contributes no region, and the number of regions is the
\* sum of the row counts of the listed countries present in REGIONS_DB.
C5_RegionsOfListed ==
  /\ pc # "raised"
  /\ \A k \in 1..Len(regions) :
       /\ \E c \in 1..Len(countries) : countries[c].id = regions[k].country_id
       /\ DictHas(REGIONS_DB, regions[k].country_id)
  /\ pc = "regions_loop" => Len(regions) = RowCountSum(SubSeq(countries, 1, ci))
  /\ pc = "gen_edges" => Len(regions) = RowCountSum(countries)

C5_Witness ==
  /\ pc = "gen_edges"
  /\ Len(regions) > 0
  /\ \E c \in 1..Len(countries) : countries[c] = UnknownCountry

(***************************************************************************)
(* Properties of generate_edges, checked on SpecEdges.                     *)
(***************************************************************************)
EdgesReturned == pc = "makedirs"

\* C1: after every iteration of the sampling loop, no two edges share the
\* same (org_id, region_id, aid_type) triple.
C1_UniqueTriples ==
  \A a, b \in 1..Len(edges) :
    a # b => ~( /\ edges[a].org_id = edges[b].org_id
                /\ edges[a].region_id = edges[b].region_id
                /\ edges[a].aid_type = edges[b].aid_type )

\* A repeated draw was folded into one of at least two edges.
C1_Witness == Len(edges) >= 2 /\ it > Len(edges)

\* C4: every edge has project_count >= 1; after k >= 1 iterations there are
\* between 1 and k edges; a returned list (TOTAL_PROJECTS >= 1) has between
\* 1 and TOTAL_PROJECTS edges.
C4_CountsAndSize ==
  /\ \A k \in 1..Len(edges) : edges[k].project_count >= 1
  /\ it >= 1 => (1 <= Len(edges) /\ Len(edges) <= it)
  /\ (EdgesReturned /\ total_projects >= 1) =>
       (1 <= Len(edges) /\ Len(edges) <= total_projects)

C4_Witness ==
  /\ EdgesReturned
  /\ total_projects >= 2
  /\ Len(edges) = 1
  /\ edges[1].project_count > COUNT_MAX

\* C7: for every non-empty org list and non-empty region list,
\* generate_edges raises no error, and it returns after exactly
\* TOTAL_PROJECTS iterations.
C7_NoFailure ==
  (orgs # << >> /\ regions # << >>) =>
    /\ pc # "raised"
    /\ EdgesReturned => it = total_projects

RECURSIVE CountSum(_)
CountSum(es) == IF es = << >> THEN 0 ELSE Head(es).project_count + CountSum(Tail(es))

DrawMatches(e, d) ==
  /\ e.org_id = d.org.id
  /\ e.region_id = d.target_region.id
  /\ e.aid_type = d.aid_type

\* The effect C8 states for one iteration that drew d.
IterationEffect(before, after, d) ==
  IF \E k \in 1..Len(before) : DrawMatches(before[k], d)
  THEN /\ Len(after) = Len(before)
       /\ \A k \in 1..Len(before) :
            after[k] = IF DrawMatches(before[k], d)
                       THEN [before[k] EXCEPT !.project_count = @ + d.count]
                       ELSE before[k]
  ELSE after = Append(before, [ org_id |-> d.org.id,
                                region_id |-> d.target_region.id,
                                aid_type |-> d.aid_type,
                                project_count |-> d.count ])

\* C8: an iteration that finds an edge with the drawn triple adds the
\* count to that edge and changes nothing else (number, order, other
\* edges); otherwise it appends one edge holding the count; so the counts
\* of all edges always add up to the counts drawn so far.
C8_AccumulateOrAppend ==
  /\ [](CountSum(edges) = drawn_sum)
  /\ [][it' = it + 1 => IterationEffect(edges, edges', draw'[1])]_vars

\* The third iteration added to the first of two edges.
C8_Witness ==
  /\ it = 3
  /\ Len(edges) = 2
  /\ DrawMatches(edges[1], draw[1])
  /\ edges[1].project_count > draw[1].count

\* C9: when generate_edges returns, every high-need region is the
\* region_id of at least one edge.
C9_HighNeedCovered ==
  (EdgesReturned /\ total_projects = MaxProjects) =>
    \A r \in 1..Len(regions) :
      regions[r].need_level = "high" =>
        \E k \in 1..Len(edges) : edges[k].region_id = regions[r].id

(***************************************************************************)
(* Properties of the writer, checked on main (Spec).                       *)
(***************************************************************************)
WriteOrder == << "countries.json", "regions.json", "orgs.json", "aid_edges.json" >>

Generated ==
  /\ pc \in { "write", "done", "failed" }
  /\ Len(orgs) = Len(NGO_NAMES)
  /\ ci = Len(countries)
  /\ it = total_projects

HoldsNew(f) == files[f] = JsonFile(Collection(f))

WriterState ==
  /\ \A k \in 1..Len(WriteOrder) :
       files[WriteOrder[k]] # PriorFile =>
         /\ Generated
         /\ dir_exists
         /\ \A j \in 1..(k - 1) : HoldsNew(WriteOrder[j])
  /\ pc = "failed" =>
       /\ \A j \in 1..Len(WriteOrder) :
            /\ j <= wi => HoldsNew(WriteOrder[j])
            /\ j > wi + 1 => files[WriteOrder[j]] = PriorFile
       /\ wi < Len(WriteOrder)
       /\ files[WriteOrder[wi + 1]] \in { PriorFile, TruncatedFile }
  /\ pc = "done" => \A j \in 1..Len(WriteOrder) : HoldsNew(WriteOrder[j])

\* C10: main writes countries.json, regions.json, orgs.json, aid_edges.json
\* in this order, only after the four collections are generated and the
\* directory exists; when the k-th write fails the run ends there (no
\* retry, no rollback), the files before it hold the new content and the
\* files after it keep the content they had.
C10_WriteOrder ==
  /\ []WriterState
  /\ [][ /\ pc \notin { "failed", "done" }
         /\ files' # files => pc = "write" ]_vars

\* The third write failed in json.dump.
C10_Witness ==
  /\ pc = "failed"
  /\ wi = 2
  /\ files["orgs.json"] = TruncatedFile
  /\ files["aid_edges.json"] = PriorFile
  /\ HoldsNew("regions.json")

=============================================================================
